---- MODULE Spec2Model ----
(***************************************************************************)
(* Sales Script Generator API (src/app.py).                                *)
(*                                                                         *)
(* Text is modelled as a sequence of atoms.  An atom is either one         *)
(* whitespace character (" ", "\n", "\t") or a non-empty run of            *)
(* non-whitespace characters ("Hello,", "I'm").  Two adjacent non-space    *)
(* atoms belong to the same word, exactly as adjacent characters do, so    *)
(* str.strip(), str.split() and str.format() act on atoms as they act on   *)
(* characters.  A replacement field of a template is the atom              *)
(* "{field_name}"; the bullet glyph U+2022 is the atom "U+2022".           *)
(***************************************************************************)
EXTENDS Integers, Sequences, FiniteSets, TLC

VARIABLES
  request_count,     \* DEPLOYMENT_INFO["request_count"]
  requests_handled,  \* history: requests any route handler has handled
  request,           \* <<>> or <<r>>: the request the framework is dispatching
  response,          \* <<>> or <<r>>: what the handler returned for it
  call,              \* <<>> or <<args>>: arguments of generate_sales_script
  frame,             \* <<>> or <<f>>: its local variables when it returned
  caught             \* <<>> or <<e>>: str(e) of the exception a handler caught

vars == <<request_count, requests_handled, request, response, call, frame, caught>>

----------------------------------------------------------------------------
(* Bounds of the model *)

\* most atoms of a product name drawn for a direct call of the composer
MaxNameLen == 2
\* most entries of key_benefits drawn for a direct call of the composer
MaxBenefits == 2
\* most requests the route handlers handle in one behaviour
MaxRequests == 3

----------------------------------------------------------------------------
(* Text *)

Whitespace == {" ", "\n", "\t"}

IsSpace(a) == a \in Whitespace

\* the bullet glyph of f"(U+2022) {benefit}"
Bullet == "U+2022"

\* the indices of s, in increasing order
Positions(s) == [i \in 1..Len(s) |-> i]

\* str.strip(): drop leading and trailing whitespace
Strip(s) ==
  LET Solid(i) == ~IsSpace(s[i])
      solid == SelectSeq(Positions(s), Solid)
  IN  IF solid = <<>> THEN <<>> ELSE SubSeq(s, solid[1], solid[Len(solid)])

\* str.split() with no separator: the maximal runs of non-whitespace, left to
\* right; whitespace runs separate them and no word is empty
Split(s) ==
  LET First(i) == ~IsSpace(s[i]) /\ (i = 1 \/ IsSpace(s[i - 1]))
      Last(i) == ~IsSpace(s[i]) /\ (i = Len(s) \/ IsSpace(s[i + 1]))
      first == SelectSeq(Positions(s), First)
      last == SelectSeq(Positions(s), Last)
  IN  [k \in 1..Len(first) |-> SubSeq(s, first[k], last[k])]

\* sep.join(parts)
RECURSIVE Join(_, _)
Join(sep, parts) ==
  IF parts = <<>> THEN <<>>
  ELSE IF Len(parts) = 1 THEN parts[1]
  ELSE parts[1] \o sep \o Join(sep, Tail(parts))

\* the replacement fields of the templates
Fields == {"{product_name}", "{target_audience}", "{benefits_list}", "{primary_benefit}"}

\* the keyword argument a replacement field reads
FieldName(a) ==
  CASE a = "{product_name}" -> "product_name"
    [] a = "{target_audience}" -> "target_audience"
    [] a = "{benefits_list}" -> "benefits_list"
    [] a = "{primary_benefit}" -> "primary_benefit"

\* str.format(**kwargs): literal text is copied, each replacement field is
\* replaced by its keyword's value, and inserted values are not scanned again
RECURSIVE FormatFrom(_, _, _)
FormatFrom(template, i, kwargs) ==
  LET Field(j) == j >= i /\ template[j] \in Fields
      fields == SelectSeq(Positions(template), Field)
  IN  IF fields = <<>>
        THEN SubSeq(template, i, Len(template))
        ELSE LET j == fields[1]
             IN  SubSeq(template, i, j - 1) \o kwargs[FieldName(template[j])]
                   \o FormatFrom(template, j + 1, kwargs)

Format(template, kwargs) == FormatFrom(template, 1, kwargs)

\* dict.get(key, default)
DictGet(d, key, default) == IF key \in DOMAIN d THEN d[key] ELSE default

\* s[:n]
Take(s, n) == SubSeq(s, 1, IF Len(s) < n THEN Len(s) ELSE n)

----------------------------------------------------------------------------
(* generate_sales_script: the script templates *)

\* cold_call_template["professional"], app.py lines 181-194
cold_call_template_professional ==
  <<
    "\n", "Hello,", " ", "this", " ", "is", " ", "[Your", " ", "Name]", " ", "from", " ",
    "[Company].", " ", "I", " ", "hope", " ", "I'm", " ", "not", " ", "catching", " ", "you",
    " ", "at", " ", "a", " ", "bad", " ", "time.", "\n", "\n", "I'm", " ", "reaching", " ",
    "out", " ", "to", " ", "{target_audience}", " ", "because", " ", "I", " ", "know", " ",
    "you're", " ", "always", " ", "looking", " ", "for", " ", "ways", " ", "to", " ",
    "{primary_benefit}", ".", "\n", "\n", "We've", " ", "developed", " ", "{product_name}",
    " ", "that", " ", "specifically", " ", "helps", " ", "businesses", " ", "like", " ",
    "yours", " ", "achieve:", "\n", "{benefits_list}", "\n", "\n", "I'd", " ", "love", " ",
    "to", " ", "show", " ", "you", " ", "how", " ", "{product_name}", " ", "has", " ",
    "helped", " ", "similar", " ", "companies", " ", "in", " ", "your", " ", "industry.", " ",
    "\n", "\n", "Would", " ", "you", " ", "have", " ", "15", " ", "minutes", " ", "this", " ",
    "week", " ", "for", " ", "a", " ", "quick", " ", "demonstration?", " ", "I", " ",
    "promise", " ", "it", " ", "will", " ", "be", " ", "worth", " ", "your", " ", "time.",
    "\n", "\n", "What", " ", "would", " ", "work", " ", "better", " ", "for", " ", "you", " ",
    "-", " ", "Tuesday", " ", "afternoon", " ", "or", " ", "Thursday", " ", "morning?", "\n"
  >>

\* cold_call_template["casual"], app.py lines 195-208
cold_call_template_casual ==
  <<
    "\n", "Hi", " ", "there!", " ", "This", " ", "is", " ", "[Your", " ", "Name]", " ", "from",
    " ", "[Company].", " ", "\n", "\n", "Quick", " ", "question", " ", "-", " ", "are", " ",
    "you", " ", "still", " ", "dealing", " ", "with", " ", "[common", " ", "problem]", " ",
    "in", " ", "your", " ", "business?", "\n", "\n", "I've", " ", "got", " ", "something", " ",
    "that", " ", "might", " ", "interest", " ", "you.", " ", "It's", " ", "called", " ",
    "{product_name}", ",", " ", "and", " ", "it's", " ", "designed", " ", "specifically", " ",
    "for", " ", "{target_audience}", ".", "\n", "\n", "Here's", " ", "what", " ", "makes", " ",
    "it", " ", "special:", "\n", "{benefits_list}", "\n", "\n", "Look,", " ", "I", " ", "know",
    " ", "you're", " ", "busy,", " ", "so", " ", "how", " ", "about", " ", "this", " ", "-",
    " ", "give", " ", "me", " ", "just", " ", "10", " ", "minutes", " ", "to", " ", "show",
    " ", "you", " ", "how", " ", "this", " ", "works,", " ", "and", " ", "if", " ", "you", " ",
    "don't", " ", "see", " ", "the", " ", "value,", " ", "no", " ", "worries", " ", "at", " ",
    "all.", "\n", "\n", "When", " ", "would", " ", "be", " ", "a", " ", "good", " ", "time",
    " ", "to", " ", "chat", " ", "briefly?", "\n"
  >>

\* cold_call_template["enthusiastic"], app.py lines 209-222
cold_call_template_enthusiastic ==
  <<
    "\n", "Hello!", " ", "This", " ", "is", " ", "[Your", " ", "Name]", " ", "from", " ",
    "[Company],", " ", "and", " ", "I", " ", "have", " ", "some", " ", "exciting", " ", "news",
    " ", "for", " ", "{target_audience}", "!", "\n", "\n", "We've", " ", "just", " ",
    "launched", " ", "{product_name}", ",", " ", "and", " ", "the", " ", "results", " ", "our",
    " ", "clients", " ", "are", " ", "seeing", " ", "are", " ", "incredible:", "\n",
    "{benefits_list}", "\n", "\n", "I'm", " ", "so", " ", "confident", " ", "this", " ",
    "will", " ", "transform", " ", "your", " ", "business", " ", "that", " ", "I", " ", "want",
    " ", "to", " ", "offer", " ", "you", " ", "a", " ", "personal", " ", "demonstration", " ",
    "at", " ", "no", " ", "cost.", "\n", "\n", "This", " ", "is", " ", "a", " ",
    "game-changer,", " ", "and", " ", "I'd", " ", "hate", " ", "for", " ", "you", " ", "to",
    " ", "miss", " ", "out", " ", "on", " ", "getting", " ", "ahead", " ", "of", " ", "your",
    " ", "competition.", "\n", "\n", "Can", " ", "we", " ", "schedule", " ", "20", " ",
    "minutes", " ", "this", " ", "week?", " ", "Trust", " ", "me,", " ", "this", " ", "will",
    " ", "be", " ", "the", " ", "best", " ", "20", " ", "minutes", " ", "you'll", " ",
    "invest", " ", "in", " ", "your", " ", "business", " ", "this", " ", "month!", "\n", "\n",
    "What", " ", "day", " ", "works", " ", "best", " ", "for", " ", "you?", "\n"
  >>

\* presentation_template["professional"], app.py lines 226-246
presentation_template_professional ==
  <<
    "\n", "Good", " ", "[morning/afternoon],", " ", "everyone.", " ", "Thank", " ", "you", " ",
    "for", " ", "taking", " ", "the", " ", "time", " ", "to", " ", "learn", " ", "about", " ",
    "{product_name}", ".", "\n", "\n", "Today,", " ", "I'm", " ", "here", " ", "to", " ",
    "show", " ", "you", " ", "how", " ", "{product_name}", " ", "can", " ", "specifically",
    " ", "benefit", " ", "{target_audience}", ".", "\n", "\n", "Let", " ", "me", " ", "start",
    " ", "with", " ", "a", " ", "question:", " ", "How", " ", "many", " ", "of", " ", "you",
    " ", "have", " ", "experienced", " ", "[common", " ", "pain", " ", "point]?", "\n", "\n",
    "[Pause", " ", "for", " ", "responses]", "\n", "\n", "That's", " ", "exactly", " ", "why",
    " ", "we", " ", "created", " ", "{product_name}", ".", " ", "Our", " ", "solution", " ",
    "addresses", " ", "these", " ", "challenges", " ", "by", " ", "providing:", "\n",
    "{benefits_list}", "\n", "\n", "Over", " ", "the", " ", "next", " ", "[X]", " ",
    "minutes,", " ", "I'll", " ", "show", " ", "you", " ", "exactly", " ", "how", " ", "this",
    " ", "works", " ", "and", " ", "share", " ", "some", " ", "real", " ", "results", " ",
    "from", " ", "companies", " ", "just", " ", "like", " ", "yours.", "\n", "\n", "By", " ",
    "the", " ", "end", " ", "of", " ", "this", " ", "presentation,", " ", "you'll", " ",
    "understand:", "\n", "-", " ", "How", " ", "{product_name}", " ", "solves", " ", "your",
    " ", "specific", " ", "challenges", "\n", "-", " ", "The", " ", "measurable", " ",
    "impact", " ", "you", " ", "can", " ", "expect", "\n", "-", " ", "How", " ", "to", " ",
    "get", " ", "started", " ", "immediately", "\n", "\n", "Let's", " ", "begin", " ", "with",
    " ", "a", " ", "quick", " ", "demonstration...", "\n"
  >>

\* presentation_template["casual"], app.py lines 247-262
presentation_template_casual ==
  <<
    "\n", "Hey", " ", "everyone!", " ", "Thanks", " ", "for", " ", "being", " ", "here", " ",
    "today.", "\n", "\n", "So,", " ", "let", " ", "me", " ", "guess", " ", "-", " ", "you're",
    " ", "probably", " ", "thinking", " ", "\"another", " ", "product", " ", "demo,", " ",
    "right?\"", " ", "\n", "\n", "Well,", " ", "{product_name}", " ", "is", " ", "different,",
    " ", "and", " ", "I", " ", "think", " ", "you'll", " ", "see", " ", "why.", "\n", "\n",
    "We", " ", "built", " ", "this", " ", "specifically", " ", "for", " ", "{target_audience}",
    " ", "because", " ", "we", " ", "kept", " ", "hearing", " ", "the", " ", "same", " ",
    "frustrations", " ", "over", " ", "and", " ", "over.", "\n", "\n", "Here's", " ", "what",
    " ", "{product_name}", " ", "actually", " ", "does:", "\n", "{benefits_list}", "\n", "\n",
    "Instead", " ", "of", " ", "just", " ", "talking", " ", "about", " ", "it,", " ", "let",
    " ", "me", " ", "show", " ", "you.", " ", "I'm", " ", "going", " ", "to", " ", "walk", " ",
    "through", " ", "a", " ", "real", " ", "example", " ", "that", " ", "I", " ", "think", " ",
    "you'll", " ", "find", " ", "pretty", " ", "interesting.", "\n", "\n", "Ready?", " ",
    "Let's", " ", "dive", " ", "in...", "\n"
  >>

\* presentation_template["enthusiastic"], app.py lines 263-278
presentation_template_enthusiastic ==
  <<
    "\n", "Welcome", " ", "everyone!", " ", "I", " ", "am", " ", "SO", " ", "excited", " ",
    "to", " ", "share", " ", "{product_name}", " ", "with", " ", "you", " ", "today!", "\n",
    "\n", "This", " ", "is", " ", "honestly", " ", "one", " ", "of", " ", "the", " ", "most",
    " ", "innovative", " ", "solutions", " ", "I've", " ", "seen", " ", "for", " ",
    "{target_audience}", ",", " ", "and", " ", "I", " ", "can't", " ", "wait", " ", "to", " ",
    "show", " ", "you", " ", "why.", "\n", "\n", "Before", " ", "we", " ", "start,", " ",
    "let", " ", "me", " ", "ask", " ", "-", " ", "who", " ", "here", " ", "is", " ", "ready",
    " ", "to", " ", "revolutionize", " ", "the", " ", "way", " ", "you", " ", "[core", " ",
    "function]?", "\n", "\n", "[Pause", " ", "for", " ", "energy]", "\n", "\n", "Perfect!",
    " ", "Because", " ", "{product_name}", " ", "is", " ", "going", " ", "to", " ", "blow",
    " ", "your", " ", "minds", " ", "with:", "\n", "{benefits_list}", "\n", "\n", "I've", " ",
    "got", " ", "some", " ", "incredible", " ", "success", " ", "stories", " ", "to", " ",
    "share,", " ", "and", " ", "by", " ", "the", " ", "time", " ", "we're", " ", "done,", " ",
    "you're", " ", "going", " ", "to", " ", "want", " ", "to", " ", "get", " ", "started", " ",
    "immediately.", "\n", "\n", "This", " ", "is", " ", "going", " ", "to", " ", "be", " ",
    "amazing", " ", "-", " ", "let's", " ", "jump", " ", "right", " ", "in!", "\n"
  >>

cold_call_template ==
  [professional |-> cold_call_template_professional,
   casual |-> cold_call_template_casual,
   enthusiastic |-> cold_call_template_enthusiastic]

presentation_template ==
  [professional |-> presentation_template_professional,
   casual |-> presentation_template_casual,
   enthusiastic |-> presentation_template_enthusiastic]

----------------------------------------------------------------------------
(* generate_sales_script *)

\* faulty variant: cold-call templates unless script_type == "presentation"
SelectTemplatesColdCallDefault(script_type) ==
  IF script_type = "presentation" THEN presentation_template ELSE cold_call_template

\* templates = cold_call_template if script_type == "cold_call" else presentation_template
SelectTemplates(script_type) ==
  IF script_type = "cold_call" THEN cold_call_template ELSE presentation_template

\* faulty variant: templates.get(tone, templates["casual"])
SelectTemplateCasualDefault(tone, script_type) ==
  DictGet(SelectTemplates(script_type), tone, SelectTemplates(script_type)["casual"])

\* template = templates.get(tone, templates["professional"])
SelectTemplate(tone, script_type) ==
  DictGet(SelectTemplates(script_type), tone, SelectTemplates(script_type)["professional"])

\* benefits_list = "\n".join([f"(bullet) {benefit}" for benefit in key_benefits])
BenefitsList(key_benefits) ==
  Join(<<"\n">>, [i \in 1..Len(key_benefits) |-> <<Bullet, " ">> \o key_benefits[i]])

\* faulty variant: another fallback phrase
PrimaryBenefitOtherPhrase(key_benefits) ==
  IF key_benefits # <<>> THEN key_benefits[1]
  ELSE <<"grow", " ", "your", " ", "business">>

\* primary_benefit = key_benefits[0] if key_benefits else "improve your business"
PrimaryBenefit(key_benefits) ==
  IF key_benefits # <<>> THEN key_benefits[1]
  ELSE <<"improve", " ", "your", " ", "business">>

\* script = template.format(...).strip()
GenerateScript(template, product_name, target_audience, benefits_list, primary_benefit) ==
  Strip(Format(template,
               [product_name |-> product_name, target_audience |-> target_audience,
                benefits_list |-> benefits_list, primary_benefit |-> primary_benefit]))

\* faulty variant: len(script.split(" ")), cutting at every single space only
WordCountOnSpaces(script) ==
  LET IsBlank(a) == a = " "
  IN  Len(SelectSeq(script, IsBlank)) + 1

\* word_count = len(script.split())
WordCount(script) == Len(Split(script))

\* ~150 words per minute speaking
WordsPerMinute == 150

\* estimated_minutes = max(1, word_count // 150)
EstimatedMinutes(word_count) ==
  IF word_count \div WordsPerMinute > 1 THEN word_count \div WordsPerMinute ELSE 1

\* duration = f"{estimated_minutes}-{estimated_minutes + 1} minutes"
Duration(word_count) ==
  <<ToString(EstimatedMinutes(word_count)) \o "-" \o ToString(EstimatedMinutes(word_count) + 1),
    " ", "minutes">>

cold_call_tips ==
  <<"Speak clearly and at a moderate pace",
    "Pause after questions to allow responses",
    "Be prepared for objections",
    "Have your calendar ready for scheduling",
    "Practice saying the product name confidently">>

presentation_tips ==
  <<"Make eye contact with your audience",
    "Use gestures to emphasize key points",
    "Pause for questions at natural breaks",
    "Have backup slides ready",
    "End with a clear call to action">>

\* the tip tips.append adds for the tone
ToneTip(tone) ==
  IF tone = "enthusiastic" THEN "Let your genuine excitement show through"
  ELSE IF tone = "casual" THEN "Keep the conversation natural and relaxed"
  ELSE "Maintain professional demeanor throughout"

\* tips[:5]  # Limit to 5 tips
TipLimit == 5

\* faulty variant: the tone tip put in front of the base list
AllTipsToneFirst(tone, script_type) ==
  <<ToneTip(tone)>> \o (IF script_type = "cold_call" THEN cold_call_tips
                        ELSE presentation_tips)

\* the tips list before the return statement slices it
AllTips(tone, script_type) ==
  Append(IF script_type = "cold_call" THEN cold_call_tips ELSE presentation_tips,
         ToneTip(tone))

\* faulty variant: "tips": tips, the slice forgotten
TipsUnlimited(tone, script_type) == AllTips(tone, script_type)

\* "tips": tips[:5]
Tips(tone, script_type) == Take(AllTips(tone, script_type), TipLimit)

\* the local variables of generate_sales_script when it returns, and the
\* dict it returns (result)
Frame(product_name, target_audience, key_benefits, tone, script_type) ==
  LET template == SelectTemplate(tone, script_type)
      benefits_list == BenefitsList(key_benefits)
      primary_benefit == PrimaryBenefit(key_benefits)
      script == GenerateScript(template, product_name, target_audience,
                               benefits_list, primary_benefit)
      word_count == WordCount(script)
  IN  [template |-> template,
       benefits_list |-> benefits_list,
       primary_benefit |-> primary_benefit,
       result |->
         [success |-> TRUE,
          script |-> script,
          script_type |-> script_type,
          word_count |-> word_count,
          estimated_duration |-> Duration(word_count),
          tips |-> Tips(tone, script_type)]]

generate_sales_script(product_name, target_audience, key_benefits, tone, script_type) ==
  Frame(product_name, target_audience, key_benefits, tone, script_type).result

----------------------------------------------------------------------------
(* Direct calls of generate_sales_script: the arguments are drawn in the   *)
(* initial state and one action applies the function to them.              *)

RECURSIVE SeqsUpTo(_, _)
\* the sequences over S of length at most n
SeqsUpTo(S, n) ==
  IF n = 0 THEN {<<>>}
  ELSE LET shorter == SeqsUpTo(S, n - 1)
       IN  shorter \cup {Append(s, x) : s \in shorter, x \in S}

ProductNames == SeqsUpTo({"Acme", " "}, MaxNameLen)

Audiences == {<<>>, <<"owners">>, <<" ", "small", " ", "firms", "\n">>}

BenefitTexts == {<<>>, <<" ">>, <<"Fast">>, <<"Saves", " ", "time">>}

BenefitLists == SeqsUpTo(BenefitTexts, MaxBenefits)

Tones == {"professional", "casual", "enthusiastic", "Professional", "CASUAL", ""}

ScriptTypes == {"cold_call", "presentation", "email"}

ComposeArgs ==
  [product_name : ProductNames, target_audience : Audiences, key_benefits : BenefitLists,
   tone : Tones, script_type : ScriptTypes]

ComposeInit ==
  /\ request_count = 0
  /\ requests_handled = 0
  /\ request = <<>>
  /\ response = <<>>
  /\ call \in {<<a>> : a \in ComposeArgs}
  /\ frame = <<>>
  /\ caught = <<>>

Compose ==
  /\ call # <<>>
  /\ frame = <<>>
  /\ frame' = <<Frame(call[1].product_name, call[1].target_audience, call[1].key_benefits,
                      call[1].tone, call[1].script_type)>>
  /\ UNCHANGED <<request_count, requests_handled, request, response, call, caught>>

ComposeNext == Compose

ComposeSpec == ComposeInit /\ [][ComposeNext]_vars

----------------------------------------------------------------------------
(* The route handlers.  The framework dispatches one validated request at  *)
(* a time to its handler (the handlers are coroutines that never await),   *)
(* and the handler's return value is the response.                         *)

\* faulty variant: the increment forgotten
CountRequestForgotten(count) == count

\* DEPLOYMENT_INFO["request_count"] += 1
CountRequest(count) == count + 1

\* Optional[T]: None is <<>>, a value v is <<v>>
None == <<>>

Some(v) == <<v>>

\* d.update(e)
Update(d, e) == e @@ d

\* time.time() - start_time, a float of the wall clock
ProcessingTime == "<seconds elapsed>"

\* str(time.time()).replace('.', '')[-8:], eight digits of the wall clock
RequestId == "<request id>"

\* datetime.now().isoformat()
Timestamp == "<timestamp>"

\* the fields class SalesScriptRequest gives a default
SalesScriptRequestDefaults == [tone |-> "professional", script_type |-> "cold_call"]

\* class SalesScriptRequest(BaseModel): the validated body, defaults filled in
SalesScriptRequest(body) == body @@ SalesScriptRequestDefaults

\* the fields class SalesScriptResponse declares
SalesScriptResponseFields ==
  {"success", "script", "script_type", "word_count", "estimated_duration", "tips"}

\* SalesScriptResponse(**kwargs): the declared fields are kept, any other
\* keyword is ignored (the model sets no "extra" policy)
SalesScriptResponse(kwargs) == [k \in SalesScriptResponseFields |-> kwargs[k]]

\* GradioResponse(data=..., duration=...), is_generating left at its default
GradioResponse(data, duration) ==
  [data |-> data, is_generating |-> FALSE, duration |-> duration]

\* the keys of the dicts quick_script serialises, in their insertion order
InsertionOrder ==
  <<"success", "error", "script", "script_type", "word_count", "estimated_duration",
    "tips", "processing_time", "request_id", "total_requests">>

\* json.dumps(d, indent=2): the members of the object, as <<key, value>>, in
\* insertion order
JsonDumps(d) ==
  LET Present(i) == InsertionOrder[i] \in DOMAIN d
      present == SelectSeq(Positions(InsertionOrder), Present)
  IN  [k \in 1..Len(present) |->
         <<InsertionOrder[present[k]], d[InsertionOrder[present[k]]]>>]

\* a handler returned content: the framework answers 200 with it
Returned(content) == [status_code |-> 200, content |-> content]

\* faulty variant: the except branch answers with the default script_type
ErrorResponseDefaultType(script_type, e) ==
  [success |-> FALSE,
   script |-> <<"Error", " ", "generating", " ", "script:", " ">> \o e,
   script_type |-> "cold_call",
   word_count |-> 0,
   estimated_duration |-> <<"0", " ", "minutes">>,
   tips |-> <<"Please try again with valid parameters">>]

\* the except branch of generate_script
ErrorResponse(script_type, e) ==
  SalesScriptResponse(
    [success |-> FALSE,
     script |-> <<"Error", " ", "generating", " ", "script:", " ">> \o e,
     script_type |-> script_type,
     word_count |-> 0,
     estimated_duration |-> <<"0", " ", "minutes">>,
     tips |-> <<"Please try again with valid parameters">>])

\* str.lower() on the tones the model draws
Lower(tone) ==
  CASE tone = "CASUAL" -> "casual"
    [] tone = "Professional" -> "professional"
    [] OTHER -> tone

\* not product_name or product_name.strip() == ""
ProductNameMissing(product_name) ==
  product_name = None \/ product_name[1] = <<>> \/ Strip(product_name[1]) = <<>>

\* the branch of quick_script that answers a missing product name
ProductNameRequired ==
  [success |-> FALSE,
   error |-> <<"Product", " ", "name", " ", "is", " ", "required">>,
   script |-> <<"Please", " ", "provide", " ", "a", " ", "product", " ", "name", " ", "to",
                " ", "generate", " ", "a", " ", "script.">>]

\* str(e) of the AttributeError a method call on None raises
NoneHasNoAttribute(name) ==
  <<"'NoneType'", " ", "object", " ", "has", " ", "no", " ", "attribute", " ",
    "'" \o name \o "'">>

\* the except branch of quick_script
QuickErrorResponse(e) ==
  [success |-> FALSE,
   error |-> e,
   script |-> <<"An", " ", "error", " ", "occurred", " ", "while", " ", "generating", " ",
                "the", " ", "script.", " ", "Please", " ", "try", " ", "again.">>,
   processing_time |-> ProcessingTime,
   request_id |-> RequestId]

\* default_benefits
default_benefits == <<<<"Saves", " ", "time">>, <<"Increases", " ", "efficiency">>,
                      <<"Reduces", " ", "costs">>>>

(* The requests the model draws *)

OptionalField(name, values) == {[k \in {} |-> k]} \cup {name :> v : v \in values}

SalesScriptBodies ==
  {[product_name |-> p, target_audience |-> <<"owners">>, key_benefits |-> b] @@ t @@ s :
     p \in {<<>>, <<" ">>, <<"Acme">>},
     b \in {<<>>, <<<<"Fast">>>>, <<<<" ">>, <<"Saves", " ", "time">>>>},
     t \in OptionalField("tone", {"casual", "enthusiastic", "CASUAL"}),
     s \in OptionalField("script_type", {"cold_call", "presentation", "email"})}

GradioData ==
  LET products == {None, Some(<<>>), Some(<<" ">>), Some(<<"Acme", " ">>)}
      audiences == {None, Some(<<" ", "owners">>)}
      tones == {None, Some("CASUAL"), Some("enthusiastic"), Some("")}
  IN  {<<>>} \cup {<<p>> : p \in products}
        \cup {<<p, a>> : p \in products, a \in audiences}
        \cup {<<p, a, t>> : p \in products, a \in audiences, t \in tones}

Requests ==
  {[endpoint |-> "POST /api/sales-script", body |-> b] : b \in SalesScriptBodies}
    \cup {[endpoint |-> "POST /api/quick-script/predict", body |-> [data |-> d]] :
            d \in GradioData}
    \cup {[endpoint |-> "GET /health"], [endpoint |-> "GET /"]}

\* an exception raised inside the try block of generate_script by the
\* runtime (MemoryError, RecursionError, ...): where, and its str()
Faults ==
  {<<>>} \cup {<<[at |-> a, message |-> m]>> :
                 a \in {"generate_sales_script", "SalesScriptResponse"},
                 m \in {<<>>, <<"out", " ", "of", " ", "memory">>}}

Init ==
  /\ request_count = 0
  /\ requests_handled = 0
  /\ request = <<>>
  /\ response = <<>>
  /\ call = <<>>
  /\ frame = <<>>
  /\ caught = <<>>

\* the request being dispatched to the handler of endpoint
Dispatching(endpoint) ==
  /\ request # <<>>
  /\ response = <<>>
  /\ request[1].endpoint = endpoint

\* the framework routes the next request, once the last one is answered
Dispatch ==
  /\ request = <<>> \/ response # <<>>
  /\ requests_handled < MaxRequests
  /\ \E r \in Requests : request' = <<r>>
  /\ response' = <<>>
  /\ call' = <<>>
  /\ frame' = <<>>
  /\ caught' = <<>>
  /\ UNCHANGED <<request_count, requests_handled>>

\* GET /health
health_check ==
  /\ Dispatching("GET /health")
  /\ response' = <<Returned([status |-> "healthy", timestamp |-> Timestamp])>>
  /\ requests_handled' = requests_handled + 1
  /\ UNCHANGED <<request_count, request, call, frame, caught>>

\* GET /
root ==
  /\ Dispatching("GET /")
  /\ response' =
       <<Returned([title |-> "Sales Script Generator API",
                   framework |-> "FastAPI",
                   deployment_info |-> [request_count |-> request_count,
                                        version |-> "1.0.0-sales-script-generator"]])>>
  /\ requests_handled' = requests_handled + 1
  /\ UNCHANGED <<request_count, request, call, frame, caught>>

\* POST /api/sales-script
generate_script ==
  /\ Dispatching("POST /api/sales-script")
  /\ \E fault \in Faults :
       LET script_request == SalesScriptRequest(request[1].body)
           total == CountRequest(request_count)
           f == Frame(script_request.product_name, script_request.target_audience,
                      script_request.key_benefits, script_request.tone,
                      script_request.script_type)
           result == Update(f.result,
                            [processing_time |-> ProcessingTime,
                             request_id |-> RequestId,
                             total_requests |-> total])
       IN  /\ request_count' = total
           /\ call' = <<[product_name |-> script_request.product_name,
                         target_audience |-> script_request.target_audience,
                         key_benefits |-> script_request.key_benefits,
                         tone |-> script_request.tone,
                         script_type |-> script_request.script_type]>>
           /\ frame' = IF fault # <<>> /\ fault[1].at = "generate_sales_script"
                         THEN <<>> ELSE <<f>>
           /\ caught' = IF fault = <<>> THEN <<>> ELSE <<fault[1].message>>
           /\ response' =
                IF fault = <<>>
                  THEN <<Returned(SalesScriptResponse(result))>>
                  ELSE <<Returned(ErrorResponse(script_request.script_type,
                                                fault[1].message))>>
  /\ requests_handled' = requests_handled + 1
  /\ UNCHANGED request

\* POST /api/quick-script/predict
quick_script ==
  /\ Dispatching("POST /api/quick-script/predict")
  /\ LET data == request[1].body.data
         total == CountRequest(request_count)
         product_name == IF Len(data) > 0 THEN data[1] ELSE Some(<<"Your", " ", "Product">>)
         target_audience == IF Len(data) > 1 THEN data[2] ELSE Some(<<"business", " ", "owners">>)
         tone == IF Len(data) > 2 THEN data[3] ELSE Some("professional")
         metadata == [processing_time |-> ProcessingTime,
                      request_id |-> RequestId,
                      total_requests |-> total]
     IN  /\ request_count' = total
         /\ IF ProductNameMissing(product_name)
              THEN /\ call' = <<>>
                   /\ frame' = <<>>
                   /\ caught' = <<>>
                   /\ response' =
                        <<Returned(GradioResponse(
                            <<JsonDumps(Update(ProductNameRequired, metadata))>>,
                            ProcessingTime))>>
            ELSE IF target_audience = None \/ tone = None
              THEN LET e == NoneHasNoAttribute(IF target_audience = None
                                                THEN "strip" ELSE "lower")
                   IN  /\ call' = <<>>
                       /\ frame' = <<>>
                       /\ caught' = <<e>>
                       /\ response' =
                            <<Returned(GradioResponse(<<JsonDumps(QuickErrorResponse(e))>>,
                                                      ProcessingTime))>>
            ELSE LET args == [product_name |-> Strip(product_name[1]),
                              target_audience |-> Strip(target_audience[1]),
                              key_benefits |-> default_benefits,
                              tone |-> Lower(tone[1]),
                              script_type |-> "cold_call"]
                     f == Frame(args.product_name, args.target_audience, args.key_benefits,
                                args.tone, args.script_type)
                 IN  /\ call' = <<args>>
                     /\ frame' = <<f>>
                     /\ caught' = <<>>
                     /\ response' =
                          <<Returned(GradioResponse(
                              <<JsonDumps(Update(f.result, metadata))>>,
                              ProcessingTime))>>
  /\ requests_handled' = requests_handled + 1
  /\ UNCHANGED request

Next ==
  \/ Dispatch
  \/ health_check
  \/ root
  \/ generate_script
  \/ quick_script

Spec == Init /\ [][Next]_vars

----------------------------------------------------------------------------
(* Properties *)

\* the arguments and the locals of the generate_sales_script call that returned
Args == call[1]

Locals == frame[1]

Result == frame[1].result

RecognizedTones == {"professional", "casual", "enthusiastic"}

RecognizedScriptTypes == {"cold_call", "presentation"}

\* s has sub as a contiguous part
Contains(s, sub) ==
  \E i \in 1..(Len(s) - Len(sub) + 1) : SubSeq(s, i, i + Len(sub) - 1) = sub

\* the words of a text, counted without splitting it: every non-space atom
\* either starts a word or continues the word of the non-space atom before it
TokenCount(s) ==
  Cardinality({i \in 1..Len(s) : ~IsSpace(s[i])})
    - Cardinality({i \in 2..Len(s) : ~IsSpace(s[i]) /\ ~IsSpace(s[i - 1])})

\* C1: whenever generate_sales_script returns success, the word_count it
\* returns is the number of whitespace-delimited words of the script it
\* returns, and that script has no leading or trailing whitespace.
C1_WordCountIsTokenCount ==
  frame # <<>> /\ Result.success =>
    /\ Result.word_count = TokenCount(Result.script)
    /\ Result.script # <<>>
    /\ ~IsSpace(Result.script[1])
    /\ ~IsSpace(Result.script[Len(Result.script)])

\* a call that interpolated a product name with a leading space and two benefits
C1_Witness ==
  /\ frame # <<>>
  /\ Result.success
  /\ Len(Args.key_benefits) = 2
  /\ Args.product_name = <<" ", "Acme">>
  /\ Contains(Result.script, <<Bullet, " ", "Saves", " ", "time">>)
  /\ Result.word_count > 80

\* the tips lists the state carries: in the response content, inside the
\* JSON text of a quick-script response, and in the composer's result
TipsCarried ==
  (IF response # <<>> /\ "tips" \in DOMAIN response[1].content
     THEN {response[1].content.tips} ELSE {})
  \cup
  (IF response # <<>> /\ "data" \in DOMAIN response[1].content
     THEN LET json == response[1].content.data[1]
          IN  {json[k][2] : k \in {k \in 1..Len(json) : json[k][1] = "tips"}}
     ELSE {})
  \cup
  (IF frame # <<>> THEN {Result.tips} ELSE {})

\* C2: every tips list, on the success path and on the error path of
\* /api/sales-script and inside a quick-script answer, has at most 5 entries.
C2_TipsAtMostFive == \A tips \in TipsCarried : Len(tips) <= 5

\* a successful /api/sales-script response with five tips, cut from six
C2_Witness ==
  /\ response # <<>>
  /\ request[1].endpoint = "POST /api/sales-script"
  /\ caught = <<>>
  /\ Len(response[1].content.tips) = 5
  /\ Len(AllTips(Args.tone, Args.script_type)) = 6

\* C3: for a tone that is not exactly professional, casual or enthusiastic,
\* generate_sales_script uses the professional template of the family the
\* script type selects, and returns success.
C3_UnknownToneUsesProfessional ==
  frame # <<>> /\ Args.tone \notin RecognizedTones =>
    /\ Result.success
    /\ Args.script_type = "cold_call" =>
         /\ Locals.template = cold_call_template_professional
         /\ SubSeq(Result.script, 1, 3) = <<"Hello,", " ", "this">>
    /\ Args.script_type # "cold_call" =>
         /\ Locals.template = presentation_template_professional
         /\ SubSeq(Result.script, 1, 3) = <<"Good", " ", "[morning/afternoon],">>

\* a differently-cased tone on a presentation script
C3_Witness ==
  /\ frame # <<>>
  /\ Args.tone = "CASUAL"
  /\ Args.script_type = "presentation"
  /\ Result.success

\* C4 as claimed: an unrecognized script_type falls back to the cold-call
\* template family.
C4_UnknownTypeUsesColdCall ==
  frame # <<>> /\ Args.script_type \notin RecognizedScriptTypes =>
    /\ Result.success
    /\ Locals.template =
         IF Args.tone \in RecognizedTones
           THEN cold_call_template[Args.tone]
           ELSE cold_call_template_professional

\* C4 amended: an unrecognized script_type does not fail and falls back to
\* the presentation template family (the presentation template of the tone,
\* the professional one for an unrecognized tone), with the presentation
\* tips; the unrecognized script_type is echoed unchanged.
C4_UnknownTypeUsesPresentation ==
  frame # <<>> /\ Args.script_type \notin RecognizedScriptTypes =>
    /\ Result.success
    /\ Result.script_type = Args.script_type
    /\ Locals.template =
         IF Args.tone \in RecognizedTones
           THEN presentation_template[Args.tone]
           ELSE presentation_template_professional
    /\ Result.script[1] \in {"Good", "Hey", "Welcome"}
    /\ Result.tips = presentation_tips

\* an unrecognized script type with a recognized tone
C4_Witness ==
  /\ frame # <<>>
  /\ Args.script_type = "email"
  /\ Args.tone = "enthusiastic"
  /\ Result.success

\* a benefit that is not empty and not whitespace only
NonBlank(benefit) == Strip(benefit) # <<>>

\* C5 as claimed: the benefits section has one bullet line per non-blank
\* benefit, in input order, and no line for a blank benefit.
C5_BlankBenefitsDropped ==
  frame # <<>> =>
    LET kept == SelectSeq(Args.key_benefits, NonBlank)
    IN  Locals.benefits_list =
          Join(<<"\n">>, [i \in 1..Len(kept) |-> <<Bullet, " ">> \o kept[i]])

\* C6: with no benefits on the cold-call professional template the call
\* succeeds, primary_benefit is "improve your business" and the benefits
\* section is empty: the script has the fallback phrase in the opening line,
\* nothing between "achieve:" and the next paragraph, and no bullet.
C6_NoBenefitsFallback ==
  /\ frame # <<>>
  /\ Args.key_benefits = <<>>
  /\ Locals.template = cold_call_template_professional
  =>
    /\ Result.success
    /\ Locals.primary_benefit = <<"improve", " ", "your", " ", "business">>
    /\ Locals.benefits_list = <<>>
    /\ Contains(Result.script,
                <<"ways", " ", "to", " ", "improve", " ", "your", " ", "business", ".", "\n">>)
    /\ Contains(Result.script, <<"achieve:", "\n", "\n", "\n", "I'd">>)
    /\ \A i \in 1..Len(Result.script) : Result.script[i] # Bullet

\* no benefits, cold call, a tone that selects the professional template
C6_Witness ==
  /\ frame # <<>>
  /\ Args.key_benefits = <<>>
  /\ Args.script_type = "cold_call"
  /\ Args.tone = "professional"
  /\ Locals.template = cold_call_template_professional

\* the request asks for a script with an empty or whitespace-only product name
BlankProductName ==
  /\ request # <<>>
  /\ \/ /\ request[1].endpoint = "POST /api/sales-script"
        /\ Strip(request[1].body.product_name) = <<>>
     \/ /\ request[1].endpoint = "POST /api/quick-script/predict"
        /\ Len(request[1].body.data) > 0
        /\ request[1].body.data[1] # None
        /\ Strip(request[1].body.data[1][1]) = <<>>

\* the value of key in a JSON object text, as a set (empty when absent)
JsonMember(json, key) == {json[k][2] : k \in {k \in 1..Len(json) : json[k][1] = key}}

\* C7 as claimed: a script request with a blank product name is answered
\* with a client error that says the product name is required, and no
\* script is generated, on both script endpoints.
C7_BlankProductNameRejected ==
  BlankProductName /\ response # <<>> =>
    /\ response[1].status_code \in 400..499
    /\ IF "data" \in DOMAIN response[1].content
         THEN ProductNameRequired.error \in JsonMember(response[1].content.data[1], "error")
         ELSE "detail" \in DOMAIN response[1].content
    /\ call = <<>>
    /\ frame = <<>>
    /\ DOMAIN response[1].content \cap {"word_count", "tips"} = {}

\* C8: an exception raised while generate_script handles a request is
\* answered, not propagated: success false, "Error generating script: "
\* followed by str(e) as the script, word_count 0, the one default tip, and
\* the script_type of the request (its default when the body omits it).
C8_ExceptionBecomesErrorResponse ==
  /\ request # <<>>
  /\ request[1].endpoint = "POST /api/sales-script"
  /\ response # <<>>
  /\ caught # <<>>
  =>
    /\ response[1].status_code = 200
    /\ DOMAIN response[1].content = SalesScriptResponseFields
    /\ response[1].content.success = FALSE
    /\ response[1].content.script =
         <<"Error", " ", "generating", " ", "script:", " ">> \o caught[1]
    /\ response[1].content.word_count = 0
    /\ response[1].content.tips = <<"Please try again with valid parameters">>
    /\ response[1].content.script_type =
         IF "script_type" \in DOMAIN request[1].body
           THEN request[1].body.script_type ELSE "cold_call"

\* an exception while building the response of a presentation request
C8_Witness ==
  /\ request # <<>>
  /\ request[1].endpoint = "POST /api/sales-script"
  /\ "script_type" \in DOMAIN request[1].body
  /\ request[1].body.script_type = "presentation"
  /\ response # <<>>
  /\ caught = <<<<"out", " ", "of", " ", "memory">>>>
  /\ frame # <<>>

\* C9 as claimed: the counter is the number of requests handled, whichever
\* endpoint handled them.
C9_CounterCountsEveryRequest == request_count = requests_handled

ScriptEndpoints == {"POST /api/sales-script", "POST /api/quick-script/predict"}

\* C9 amended: the counter starts at 0; a request handled by
\* /api/sales-script or /api/quick-script/predict adds exactly 1 to it,
\* whether it succeeds, fails the product-name check or takes the except
\* branch; a request handled by /health or / leaves it unchanged; nothing
\* else changes it, so it never decreases and is never reset.
C9_CounterCountsScriptRequests ==
  /\ request_count = 0
  /\ [][/\ requests_handled' = requests_handled + 1 =>
            request_count' = request_count
                               + (IF request[1].endpoint \in ScriptEndpoints THEN 1 ELSE 0)
        /\ requests_handled' = requests_handled => request_count' = request_count
        /\ requests_handled' \in {requests_handled, requests_handled + 1}]_vars

\* script requests counted on the success, validation and except paths, and
\* another request not counted
C9_Witness ==
  /\ request_count = 2
  /\ requests_handled = 3
  /\ response # <<>>
  /\ request[1].endpoint = "POST /api/quick-script/predict"
  /\ caught # <<>>

\* C10 as claimed: a successful /api/sales-script response carries
\* processing_time, request_id and total_requests next to the six script
\* fields, total_requests being the counter after this request's increment.
C10_ResponseCarriesMetadata ==
  /\ request # <<>>
  /\ request[1].endpoint = "POST /api/sales-script"
  /\ response # <<>>
  /\ caught = <<>>
  =>
    /\ SalesScriptResponseFields \subseteq DOMAIN response[1].content
    /\ {"processing_time", "request_id", "total_requests"} \subseteq DOMAIN response[1].content
    /\ response[1].content.total_requests = request_count

\* the three tone-specific tips
ToneTips ==
  {"Let your genuine excitement show through",
   "Keep the conversation natural and relaxed",
   "Maintain professional demeanor throughout"}

\* C11: the tips generate_sales_script returns are the five-item base list
\* of the script type (the cold-call list for "cold_call", the presentation
\* list for anything else) in its original order; the tone-specific tip,
\* appended sixth, is cut by the slice and never appears, whatever the tone.
C11_TipsAreBaseList ==
  frame # <<>> =>
    /\ Len(Result.tips) = 5
    /\ Args.script_type = "cold_call" =>
         /\ Result.tips[1] = "Speak clearly and at a moderate pace"
         /\ Result.tips = cold_call_tips
    /\ Args.script_type # "cold_call" =>
         /\ Result.tips[1] = "Make eye contact with your audience"
         /\ Result.tips = presentation_tips
    /\ \A i \in 1..Len(Result.tips) : Result.tips[i] \notin ToneTips

\* an enthusiastic call with an unrecognized script type: six tips were
\* built, the sixth being the tone tip, and five were returned
C11_Witness ==
  /\ frame # <<>>
  /\ Args.tone = "enthusiastic"
  /\ Args.script_type = "email"
  /\ Len(AllTips(Args.tone, Args.script_type)) = 6
  /\ AllTips(Args.tone, Args.script_type)[6] = "Let your genuine excitement show through"
  /\ Len(Result.tips) = 5

====
